---- MODULE Spec2Model ----
(***************************************************************************)
(* Model of the OLED text display driver (internal/display/display.go) and *)
(* of the polling program that drives it (cmd/oledmonitor/main.go).        *)
(*                                                                         *)
(* A string is a sequence of one-character strings; Go's 0-based byte      *)
(* index i of a string s is s[i+1] here.  The frame buffer and the panel   *)
(* are grids of glyph slots, one per character cell: a slot holds the      *)
(* character whose glyph is painted there, and " " is a slot that is all   *)
(* background (a space paints no pixel).                                   *)
(***************************************************************************)
EXTENDS Integers, Sequences, FiniteSets, TLC

\* ---------------------------------------------------------------- constants
width == 128
height == 64
charWidth == 8
charHeight == 16
maxChars == 16
maxLines == 4

\* ------------------------------------------------------------------- bounds
\* Longest over-length argument handed to WriteLine is maxChars + MaxOver.
MaxOver == 1
\* A device failure can be injected at the 0th .. MaxFailAt-th Draw of a call.
MaxFailAt == 5
\* Number of API calls explored on one Display.
MaxOps == 4
\* Longest short string of the two-call WriteLine exploration.
MaxShort == 2
\* Number of updateDisplay runs of the polling program.
MaxTicks == 3
\* In the polling program a failure can hit the 0th .. MaxTickFailAt-th Draw.
MaxTickFailAt == 0
MaxSetup == 3

VARIABLES
    dev,            \* d.dev: "nil", "ready" or "halted" (non-nil after Halt)
    i2cBus,         \* d.i2cBus: "nil", "open" or "closed"
    lines,          \* d.lines
    prevLines,      \* d.prevLines
    charPositions,  \* d.charPositions
    img,            \* d.img, as a grid of glyph slots ("nil" when d.img is nil)
    initialized,    \* d.initialized
    panel,          \* what the physical panel shows, per glyph slot
    lastOp,         \* the call that produced this state
    writes,         \* the d.dev.Draw calls that call issued, in order
    err,            \* what that call returned ("panic" if it panicked)
    nOps,           \* number of calls made so far by a free caller
    pc,             \* where the polling goroutine of main.go stands
    ticks,          \* number of updateDisplay runs started
    tickStart,      \* the display as the current updateDisplay run found it
    tickWrites,     \* number of Draw calls issued since that run started
    pcMain,         \* where the main goroutine of main.go stands
    done            \* number of values buffered in the done channel

vars == <<dev, i2cBus, lines, prevLines, charPositions, img, initialized,
          panel, lastOp, writes, err, nOps, pc, ticks, tickStart, tickWrites,
          pcMain, done>>

poller == <<pc, ticks, tickStart, tickWrites>>

mainGo == <<pcMain, done>>

display == <<dev, i2cBus, lines, prevLines, charPositions, img, initialized>>

LineIdx == 0 .. (maxLines - 1)
ColIdx == 0 .. (maxChars - 1)

\* Which Draw call of an operation fails (counted from 0), or none; n is the
\* number of Draw calls the operation issues when none fails.
NoFail == -1
FailChoicesUpTo(n, m) == {NoFail} \cup (0 .. (IF n - 1 < m THEN n - 1 ELSE m))
FailChoices(n) == FailChoicesUpTo(n, MaxFailAt)

\* ------------------------------------------------------------------ strings
Rep(c, n) == [k \in 1 .. n |-> c]

\* s[i] of the code, with positions past the end read as a blank.
EffChar(s, i) == IF i < Len(s) THEN s[i + 1] ELSE " "

\* Truncate cutting one character too late.
TruncateOffByOne(content) ==
    IF Len(content) > maxChars THEN SubSeq(content, 1, maxChars + 1) ELSE content

\* content[:maxChars] when len(content) > maxChars.
Truncate(content) ==
    IF Len(content) > maxChars THEN SubSeq(content, 1, maxChars) ELSE content

\* strings.TrimSpace
TrimSpace(s) ==
    LET inked == {k \in 1 .. Len(s) : s[k] # " "}
        first == CHOOSE k \in inked : \A m \in inked : k <= m
        last  == CHOOSE k \in inked : \A m \in inked : k >= m
    IN  IF inked = {} THEN <<>> ELSE SubSeq(s, first, last)

\* ----------------------------------------------------------------- geometry
Rect(x0, y0, x1, y1) == [min |-> <<x0, y0>>, max |-> <<x1, y1>>]

Bounds == Rect(0, 0, width, height)

\* CharRect with the two pitches swapped.
CharRectSwappedPitch(lineIdx, charIdx) ==
    LET x == charIdx * charHeight
        y == lineIdx * charWidth
    IN  Rect(x, y, x + charWidth, y + charHeight)

\* charRect of the cell at (lineIdx, charIdx).
CharRect(lineIdx, charIdx) ==
    LET x == charIdx * charWidth
        y == lineIdx * charHeight
    IN  Rect(x, y, x + charWidth, y + charHeight)

BlankGrid == [i \in LineIdx |-> [j \in ColIdx |-> " "]]

\* One d.dev.Draw call: the rectangle, and the glyph slots sent for it.
FullPush(grid) == [r |-> Bounds, px |-> grid]
CellPush(i, j, c) == [r |-> CharRect(i, j), px |-> c]


\* ------------------------------------------------------------- row-major scan
\* The cells in the order the two nested range loops visit them.
AllCells ==
    [n \in 1 .. (maxLines * maxChars) |->
        <<(n - 1) \div maxChars, (n - 1) % maxChars>>]

\* The cells whose flag is set, in that order.
DirtyCells(cp) == SelectSeq(AllCells, LAMBDA c : cp[c[1]][c[2]])

AnyDirty(cp) == \E i \in LineIdx : \E j \in ColIdx : cp[i][j]

\* ------------------------------------------------------------------ WriteLine
\* CompareChars that stops at the end of the new content instead of padding it.
CompareCharsNoPad(old, content) ==
    [i \in ColIdx |-> i < Len(content) /\ EffChar(old, i) # content[i + 1]]

\* The flag row computed by the comparison loop of WriteLine.
CompareChars(old, content) ==
    [i \in ColIdx |-> EffChar(old, i) # EffChar(content, i)]

\* WriteLineResult clamping a bad index into range instead of returning.
WriteLineResultClamped(ls, cp, line, content) ==
    LET l == IF line < 0 THEN 0 ELSE IF line >= maxLines THEN maxLines - 1 ELSE line
        c == Truncate(content)
    IN  IF c # ls[l]
        THEN [lines |-> [ls EXCEPT ![l] = c],
              charPositions |-> [cp EXCEPT ![l] = CompareChars(ls[l], c)]]
        ELSE [lines |-> ls, charPositions |-> cp]

\* WriteLineResult starting from an all-clear flag grid on every change.
WriteLineResultResetsFlags(ls, cp, line, content) ==
    IF line < 0 \/ line >= maxLines
    THEN [lines |-> ls, charPositions |-> cp]
    ELSE LET c == Truncate(content)
         IN  IF c # ls[line]
             THEN [lines |-> [ls EXCEPT ![line] = c],
                   charPositions |->
                       [i \in LineIdx |->
                           IF i = line THEN CompareChars(ls[line], c)
                           ELSE [j \in ColIdx |-> FALSE]]]
             ELSE [lines |-> ls, charPositions |-> cp]

\* Lines and flags after WriteLine(line, content).
WriteLineResult(ls, cp, line, content) ==
    IF line < 0 \/ line >= maxLines
    THEN [lines |-> ls, charPositions |-> cp]
    ELSE LET c == Truncate(content)
         IN  IF c # ls[line]
             THEN [lines |-> [ls EXCEPT ![line] = c],
                   charPositions |->
                       [cp EXCEPT ![line] = CompareChars(ls[line], c)]]
             ELSE [lines |-> ls, charPositions |-> cp]

\* ------------------------------------------------------------ redraw engine
\* The glyph redrawChangedChars paints into a cleared cell.
CellGlyph(ls, i, j) ==
    IF i < maxLines /\ j < Len(ls[i]) THEN ls[i][j + 1] ELSE " "

\* Draw calls redrawChangedChars issues over n dirty cells when the fail-th
\* call (counted from 0) fails: the failing call is the last one.
Attempted(n, fail) == IF fail # NoFail /\ fail < n THEN fail + 1 ELSE n

\* Pushed with the flag cleared before the Draw error is looked at.
PushedInclFailing(n, fail) == IF fail # NoFail /\ fail < n THEN fail + 1 ELSE n

\* Cells whose flag redrawChangedChars clears: those whose Draw returned nil.
Pushed(n, fail) == IF fail # NoFail /\ fail < n THEN fail ELSE n

\* SyncPrev taking the snapshot on the error path too.
SyncPrevAlways(ls, pl, failed) == ls

\* prevLines after redrawChangedChars: synced only when the loop ran through.
SyncPrev(ls, pl, failed) == IF failed THEN pl ELSE ls

\* redrawChangedChars; fail = NoFail, or fail beyond the last call, is a run
\* in which every Draw succeeds.
RedrawChangedChars(ls, cp, im, pl, pn, fail) ==
    LET D         == DirtyCells(cp)
        failed    == fail # NoFail /\ fail < Len(D)
        PushedSet == {D[k] : k \in 1 .. Pushed(Len(D), fail)}
        DrawnSet  == {D[k] : k \in 1 .. Attempted(Len(D), fail)}
    IN  [charPositions |->
             [i \in LineIdx |-> [j \in ColIdx |->
                 cp[i][j] /\ <<i, j>> \notin PushedSet]],
         img |->
             [i \in LineIdx |-> [j \in ColIdx |->
                 IF <<i, j>> \in DrawnSet THEN CellGlyph(ls, i, j)
                                          ELSE im[i][j]]],
         panel |->
             [i \in LineIdx |-> [j \in ColIdx |->
                 IF <<i, j>> \in PushedSet THEN CellGlyph(ls, i, j)
                                           ELSE pn[i][j]]],
         prevLines |-> SyncPrev(ls, pl, failed),
         writes |->
             [k \in 1 .. Attempted(Len(D), fail) |->
                 CellPush(D[k][1], D[k][2], CellGlyph(ls, D[k][1], D[k][2]))],
         err |-> IF failed THEN "io" ELSE "nil"]

\* The frame fullDraw paints: every non-empty line's trimmed text from the
\* left edge of its band.
FullFrame(ls) ==
    [i \in LineIdx |-> [j \in ColIdx |->
        IF ls[i] = <<>> THEN " " ELSE EffChar(TrimSpace(ls[i]), j)]]

\* FullDraw that paints the buffer and returns without pushing it.
FullDrawNoPush(ls, pn, fail) ==
    [img |-> FullFrame(ls), panel |-> pn, writes |-> <<>>, err |-> "nil"]

\* fullDraw, with its single Draw call failing iff fail = 0.
FullDraw(ls, pn, fail) ==
    LET frame == FullFrame(ls)
    IN  [img |-> frame,
         panel |-> IF fail = 0 THEN pn ELSE frame,
         writes |-> <<FullPush(frame)>>,
         err |-> IF fail = 0 THEN "io" ELSE "nil"]

\* initialized set whatever fullDraw returned.
InitializedAfterFullDrawAlways(e) == TRUE

\* Update returns before "d.initialized = true" when fullDraw fails.
InitializedAfterFullDraw(e) == e = "nil"

\* The first Update resetting every flag.
FlagsAfterFullDrawCleared(cp) == [i \in LineIdx |-> [j \in ColIdx |-> FALSE]]

\* The first-Update branch never assigns charPositions.
FlagsAfterFullDraw(cp) == cp

\* --------------------------------------------------------------- operations
Op(name, line, content) == [name |-> name, line |-> line, content |-> content]

\* New() succeeded.
Opened ==
    /\ dev = "ready" /\ i2cBus = "open"
    /\ lines = [i \in LineIdx |-> <<>>]
    /\ prevLines = [i \in LineIdx |-> <<>>]
    /\ charPositions = [i \in LineIdx |-> [j \in ColIdx |-> FALSE]]
    /\ img = BlankGrid
    /\ initialized = FALSE
    /\ panel = BlankGrid
    /\ lastOp = Op("New", 0, <<>>)
    /\ writes = <<>>
    /\ err = "nil"

\* The zero value of Display: every pointer nil (img = BlankGrid stands for
\* the nil image, which no operation reads before it panics).
ZeroValue ==
    /\ dev = "nil" /\ i2cBus = "nil"
    /\ lines = [i \in LineIdx |-> <<>>]
    /\ prevLines = [i \in LineIdx |-> <<>>]
    /\ charPositions = [i \in LineIdx |-> [j \in ColIdx |-> FALSE]]
    /\ img = BlankGrid
    /\ initialized = FALSE
    /\ panel = BlankGrid
    /\ lastOp = Op("New", 0, <<>>)
    /\ writes = <<>>
    /\ err = "nil"

WriteLine(line, content) ==
    /\ LET res == WriteLineResult(lines, charPositions, line, content)
       IN  /\ lines' = res.lines
           /\ charPositions' = res.charPositions
    /\ lastOp' = Op("WriteLine", line, content)
    /\ writes' = <<>>
    /\ err' = "nil"
    /\ UNCHANGED <<dev, i2cBus, prevLines, img, initialized, panel>>

\* Clear handing the redraw error on.
RedrawErrorKept(e) == e

\* Clear calls d.redrawChangedChars() as a statement: the error is dropped.
RedrawErrorDropped(e) == "nil"

\* The lines and flags Clear leaves before it redraws.
ClearedLines(ls) == [i \in LineIdx |-> <<>>]

ClearedFlags(ls, cp) ==
    [i \in LineIdx |->
        IF ls[i] # <<>> THEN [j \in ColIdx |-> TRUE] ELSE cp[i]]

Clear(fail) ==
    /\ lastOp' = Op("Clear", 0, <<>>)
    /\ lines' = ClearedLines(lines)
    /\ UNCHANGED <<dev, i2cBus, initialized>>
    /\ IF initialized
       THEN \* d.redrawChangedChars(), its error dropped
            LET res == RedrawChangedChars(ClearedLines(lines),
                                          ClearedFlags(lines, charPositions),
                                          img, prevLines, panel, fail)
            IN  /\ charPositions' = res.charPositions
                /\ img' = res.img
                /\ panel' = res.panel
                /\ prevLines' = res.prevLines
                /\ writes' = res.writes
                /\ err' = RedrawErrorDropped(res.err)
       ELSE /\ charPositions' = ClearedFlags(lines, charPositions)
            /\ prevLines' = prevLines
            /\ IF dev = "nil"
               THEN \* d.img is nil: d.img.Bounds() panics
                    /\ err' = "panic"
                    /\ writes' = <<>>
                    /\ UNCHANGED <<img, panel>>
               ELSE \* blank the buffer and push it whole, the error dropped
                    /\ img' = BlankGrid
                    /\ writes' = <<FullPush(BlankGrid)>>
                    /\ panel' = IF fail = 0 THEN panel ELSE BlankGrid
                    /\ err' = "nil"

Update(fail) ==
    /\ lastOp' = Op("Update", 0, <<>>)
    /\ UNCHANGED <<dev, i2cBus, lines>>
    /\ IF dev = "nil"
       THEN /\ err' = "display not initialized"
            /\ writes' = <<>>
            /\ UNCHANGED <<prevLines, charPositions, img, initialized, panel>>
       ELSE IF ~initialized
       THEN LET res == FullDraw(lines, panel, fail)
            IN  /\ img' = res.img
                /\ panel' = res.panel
                /\ writes' = res.writes
                /\ err' = res.err
                /\ initialized' = InitializedAfterFullDraw(res.err)
                /\ prevLines' = IF res.err = "nil" THEN lines ELSE prevLines
                /\ charPositions' = FlagsAfterFullDraw(charPositions)
       ELSE IF ~AnyDirty(charPositions)
       THEN /\ err' = "nil"
            /\ writes' = <<>>
            /\ UNCHANGED <<prevLines, charPositions, img, initialized, panel>>
       ELSE LET res == RedrawChangedChars(lines, charPositions, img, prevLines,
                                          panel, fail)
            IN  /\ charPositions' = res.charPositions
                /\ img' = res.img
                /\ panel' = res.panel
                /\ prevLines' = res.prevLines
                /\ writes' = res.writes
                /\ err' = res.err
                /\ UNCHANGED initialized

\* Close halts the controller and closes the bus; both pointers stay set.
Close ==
    /\ lastOp' = Op("Close", 0, <<>>)
    /\ dev' = IF dev # "nil" THEN "halted" ELSE dev
    /\ i2cBus' = IF i2cBus # "nil" THEN "closed" ELSE i2cBus
    /\ writes' = <<>>
    /\ err' = "nil"
    /\ UNCHANGED <<lines, prevLines, charPositions, img, initialized, panel>>

\* Number of Draw calls Clear and Update issue in the current state when no
\* call fails.
ClearDraws ==
    IF initialized THEN Len(DirtyCells(ClearedFlags(lines, charPositions)))
    ELSE IF dev = "nil" THEN 0 ELSE 1

UpdateDraws ==
    IF dev = "nil" THEN 0
    ELSE IF ~initialized THEN 1 ELSE Len(DirtyCells(charPositions))

\* ----------------------------------------- a caller using the API freely
LineArgs == -1 .. maxLines

Contents ==
    { <<>>, <<" ", "a">>, Rep("b", maxChars), Rep("b", maxChars + MaxOver) }

NoPoller ==
    /\ pc = "none"
    /\ ticks = 0
    /\ tickStart = [initialized |-> FALSE, clean |-> TRUE, lines |-> lines]
    /\ tickWrites = 0
    /\ pcMain = "none"
    /\ done = 0

Init == (Opened \/ ZeroValue) /\ nOps = 0 /\ NoPoller

\* A call returns to its caller unless it panicked.
CanCall == err # "panic" /\ nOps < MaxOps

CallWriteLine(line, content) ==
    CanCall /\ WriteLine(line, content) /\ nOps' = nOps + 1 /\ UNCHANGED <<poller, mainGo>>

CallClear(fail) ==
    CanCall /\ Clear(fail) /\ nOps' = nOps + 1 /\ UNCHANGED <<poller, mainGo>>

CallUpdate(fail) ==
    CanCall /\ Update(fail) /\ nOps' = nOps + 1 /\ UNCHANGED <<poller, mainGo>>

CallClose ==
    CanCall /\ Close /\ nOps' = nOps + 1 /\ UNCHANGED <<poller, mainGo>>

Next ==
    \/ \E line \in LineArgs : \E content \in Contents : CallWriteLine(line, content)
    \/ \E fail \in FailChoices(ClearDraws) : CallClear(fail)
    \/ \E fail \in FailChoices(UpdateDraws) : CallUpdate(fail)
    \/ CallClose

Spec == Init /\ [][Next]_vars

\* ------------------------- two WriteLine calls on a freshly opened Display
Alphabet == {"a", "b", " "}

\* Every string over Alphabet of at most MaxShort characters, and full-width
\* strings that differ everywhere, nowhere but the last column, or only by
\* trailing blanks.
PairContents ==
    UNION {[1 .. n -> Alphabet] : n \in 0 .. MaxShort}
    \cup { Rep("a", maxChars), Rep("b", maxChars),
           Rep("a", maxChars - 1) \o <<"b">>, Rep("a", maxChars - 1) \o <<" ">>,
           Rep("a", maxChars - 1) }

InitPair == Opened /\ nOps = 0 /\ NoPoller

NextPair ==
    \E line \in LineIdx : \E content \in PairContents :
        nOps < 2 /\ CallWriteLine(line, content)

SpecPair == InitPair /\ [][NextPair]_vars

\* ------------------------------- a caller that ends up retrying Update
\* The caller makes MaxSetup calls of WriteLine, Clear and Update, device
\* failures included, and from then on only calls Update.
RetryContents == { <<>>, <<"b">>, <<"b", " ">>, <<" ", "a">> }

\* The lines the caller writes to.
RetryLines == {0, 1}

InitRetry == Opened /\ nOps = 0 /\ NoPoller

InSetup == nOps < MaxSetup

InRetry == nOps = MaxSetup

SetupWriteLine ==
    \E line \in RetryLines : \E content \in RetryContents :
        InSetup /\ CallWriteLine(line, content)

SetupClear == \E fail \in FailChoices(ClearDraws) : InSetup /\ CallClear(fail)

SetupUpdate == \E fail \in FailChoices(UpdateDraws) : InSetup /\ CallUpdate(fail)

RetryUpdate(fail) ==
    InRetry /\ Update(fail) /\ UNCHANGED <<nOps, poller, mainGo>>

NextRetry ==
    \/ SetupWriteLine
    \/ SetupClear
    \/ SetupUpdate
    \/ \E fail \in FailChoices(UpdateDraws) : RetryUpdate(fail)

\* Update keeps being called and the device ends up accepting every write:
\* an Update in which every Draw succeeds is taken whenever it stays due.
SpecRetry == InitRetry /\ [][NextRetry]_vars /\ WF_vars(RetryUpdate(NoFail))

\* ------------------------------------- the metric strings (ipaddr, uptime)
\* fmt's %d of a natural number, as a sequence of characters.
Digit(n) == <<"0", "1", "2", "3", "4", "5", "6", "7", "8", "9">>[n + 1]

RECURSIVE Itoa(_)
Itoa(n) == IF n < 10 THEN <<Digit(n)>> ELSE Itoa(n \div 10) \o <<Digit(n % 10)>>

\* net.IP.String() of an IPv4 address: the four octets in dotted decimal.
IPString(ip) ==
    Itoa(ip[1]) \o <<".">> \o Itoa(ip[2]) \o <<".">> \o Itoa(ip[3]) \o <<".">> \o Itoa(ip[4])

\* ipaddr.Get: "IP: <address>" of the first usable IPv4 address, and
\* "IP: Not found" when there is none (ip = <<>>).
IpGet(ip) ==
    IF ip = <<>>
    THEN <<"I", "P", ":", " ", "N", "o", "t", " ", "f", "o", "u", "n", "d">>
    ELSE <<"I", "P", ":", " ">> \o IPString(ip)

\* uptime.Get for an uptime of secs whole seconds.
UptimeGet(secs) ==
    LET days  == (secs \div 3600) \div 24
        hours == (secs \div 3600) % 24
        mins  == (secs \div 60) % 60
    IN  IF days > 0
        THEN <<"U", "p", ":", " ">> \o Itoa(days) \o <<"d", " ">>
                 \o Itoa(hours) \o <<"h", " ">> \o Itoa(mins) \o <<"m">>
        ELSE <<"U", "p", ":", " ">> \o Itoa(hours) \o <<"h", " ">>
                 \o Itoa(mins) \o <<"m">>

\* Octets the interface address is built from, and the case of no address.
Octets == {1, 10, 192}

IpInputs == {<<a, b, c, d>> : a \in Octets, b \in Octets, c \in Octets, d \in Octets}
            \cup {<<>>}

\* Uptimes in seconds: zero, under an hour, under a day, 100 days 10 h 10 m,
\* and 1000 days 23 h 59 m.
UptimeInputs == {0, 59, 3600, 86399, 86400, 8676600, 86486340}

\* Lines 59-73 of updateDisplay on a fresh display: WriteLine(0, ip), then
\* WriteLine(1, upStr).
InitMetrics == Opened /\ nOps = 0 /\ NoPoller

MetricsIp == \E ip \in IpInputs : nOps = 0 /\ CallWriteLine(0, IpGet(ip))

MetricsUptime == \E secs \in UptimeInputs : nOps = 1 /\ CallWriteLine(1, UptimeGet(secs))

NextMetrics == MetricsIp \/ MetricsUptime

SpecMetrics == InitMetrics /\ [][NextMetrics]_vars

\* ------------------------------------------- the polling program (main.go)
\* What the collaborators hand to updateDisplay: the fallback strings of
\* updateDisplay, ipaddr.Get's "IP: Not found" and an uptime.Get result.
IpValues == { <<"I", "P", ":", " ", "E", "r", "r", "o", "r">>, <<"I", "P", ":", " ", "N", "o", "t", " ", "f", "o", "u", "n", "d">> }

UpValues == { <<"U", "p", ":", " ", "E", "r", "r", "o", "r">>, <<"U", "p", ":", " ", "0", "h", " ", "1", "m">> }

CpuValues == { <<"C", "P", "U", ":", " ", "E", "r", "r", "o", "r">> }

DiskValues == { <<"D", "i", "s", "k", ":", " ", "E", "r", "r", "o", "r">> }

\* The display as an updateDisplay run finds it.
Snapshot ==
    [initialized |-> initialized, clean |-> ~AnyDirty(charPositions),
     lines |-> lines]

\* main got a Display from New(), started the goroutine and waits for a
\* signal; the goroutine is about to make the initial updateDisplay call.
InitMain ==
    /\ Opened
    /\ nOps = 0
    /\ pc = "initial"
    /\ ticks = 0
    /\ tickStart = Snapshot
    /\ tickWrites = 0
    /\ pcMain = "waitsig"
    /\ done = 0

\* The goroutine runs as long as main has not returned.
Running == pcMain # "exited"

\* updateDisplay is entered: by the initial call, or by a tick of the ticker.
InitialUpdate ==
    /\ Running
    /\ pc = "initial" /\ ticks < MaxTicks
    /\ pc' = "clear"
    /\ ticks' = ticks + 1
    /\ tickStart' = Snapshot
    /\ tickWrites' = 0
    /\ UNCHANGED <<display, panel, lastOp, writes, err, nOps, mainGo>>

\* select takes the ticker case; it may do so with a value waiting in done.
TickerFires ==
    /\ Running
    /\ pc = "select" /\ ticks < MaxTicks
    /\ pc' = "clear"
    /\ ticks' = ticks + 1
    /\ tickStart' = Snapshot
    /\ tickWrites' = 0
    /\ UNCHANGED <<display, panel, lastOp, writes, err, nOps, mainGo>>

\* select takes the done case and the goroutine returns.
PollDone ==
    /\ Running
    /\ pc = "select" /\ done > 0
    /\ pc' = "returned"
    /\ done' = done - 1
    /\ UNCHANGED <<display, panel, lastOp, writes, err, nOps, ticks, tickStart,
                   tickWrites, pcMain>>

\* One statement of updateDisplay: the call, then the bookkeeping.
PollStep(from, to) ==
    /\ Running
    /\ pc = from
    /\ pc' = to
    /\ tickWrites' = tickWrites + Len(writes')
    /\ UNCHANGED <<nOps, ticks, tickStart, mainGo>>

PollClear(fail) == Clear(fail) /\ PollStep("clear", "ip")

PollIp(ip) == WriteLine(0, ip) /\ PollStep("ip", "uptime")

PollUptime(upStr) == WriteLine(1, upStr) /\ PollStep("uptime", "cpu")

PollCpu(cpuInfo) == WriteLine(2, cpuInfo) /\ PollStep("cpu", "disk")

PollDisk(diskInfo) == WriteLine(3, diskInfo) /\ PollStep("disk", "update")

\* disp.Update(); an error is logged and the loop goes on.
PollUpdate(fail) == Update(fail) /\ PollStep("update", "select")

\* One statement of main after the goroutine was started.
MainStep(from, to) ==
    /\ pcMain = from
    /\ pcMain' = to
    /\ UNCHANGED <<nOps, poller>>

\* <-sigs returns: SIGINT or SIGTERM was delivered.
SignalArrives ==
    /\ MainStep("waitsig", "send")
    /\ UNCHANGED <<display, panel, lastOp, writes, err, done>>

\* done <- true: the channel has room for one value, the send does not block.
MainSendDone ==
    /\ MainStep("send", "sleep")
    /\ done' = done + 1
    /\ UNCHANGED <<display, panel, lastOp, writes, err>>

\* time.Sleep(250 * time.Millisecond) returns; main returns.
MainSleepEnds ==
    /\ MainStep("sleep", "deferred")
    /\ UNCHANGED <<display, panel, lastOp, writes, err, done>>

\* The deferred disp.Close() runs.
MainClose == MainStep("deferred", "closed") /\ Close /\ UNCHANGED <<panel, done>>

\* main has returned: the process exits and with it the goroutine.
MainExit ==
    /\ MainStep("closed", "exited")
    /\ UNCHANGED <<display, panel, lastOp, writes, err, done>>

NextMain ==
    \/ InitialUpdate
    \/ TickerFires
    \/ PollDone
    \/ \E fail \in FailChoicesUpTo(ClearDraws, MaxTickFailAt) : PollClear(fail)
    \/ \E ip \in IpValues : PollIp(ip)
    \/ \E upStr \in UpValues : PollUptime(upStr)
    \/ \E cpuInfo \in CpuValues : PollCpu(cpuInfo)
    \/ \E diskInfo \in DiskValues : PollDisk(diskInfo)
    \/ \E fail \in FailChoicesUpTo(UpdateDraws, MaxTickFailAt) : PollUpdate(fail)
    \/ SignalArrives
    \/ MainSendDone
    \/ MainSleepEnds
    \/ MainClose
    \/ MainExit

SpecMain == InitMain /\ [][NextMain]_vars

\* ------------------------------------------------------------- properties
DirtyCols(cp, i) == {j \in ColIdx : cp[i][j]}

\* The cells a sequence of Draw calls pushed, in order.
PushedRects(ws) == [k \in 1 .. Len(ws) |-> ws[k].r]

RectsOf(cells) == [k \in 1 .. Len(cells) |-> CharRect(cells[k][1], cells[k][2])]

\* C1: on an opened Display, in every reachable state, a cell's dirty flag is
\* set iff the padded character of its line differs from the character the
\* panel shows there (the one last pushed; blank if none was).
C1_DirtyIffDiffersFromPanel ==
    dev # "nil" =>
        \A i \in LineIdx : \A j \in ColIdx :
            charPositions[i][j] <=> (EffChar(lines[i], j) # panel[i][j])

\* C2: an Update that directly follows an Update which returned nil issues
\* no Draw call and changes nothing of the display.
C2_SecondUpdateIsNoOp ==
    [][(lastOp.name = "Update" /\ err = "nil" /\ lastOp'.name = "Update")
          => (writes' = <<>> /\ UNCHANGED <<display, panel>>)]_vars

\* C3: an updateDisplay run that finds the display initialized with no flag
\* set, and writes the four strings the lines already hold, issues no Draw
\* call.
C3_UnchangedTickTouchesNothing ==
    (pc = "select" /\ tickStart.initialized /\ tickStart.clean
        /\ lines = tickStart.lines)
        => tickWrites = 0

\* The columns where the padded characters of two strings differ.
PaddedDiff(A, B) == {j \in ColIdx : EffChar(A, j) # EffChar(B, j)}

\* The step WriteLine(i, A); WriteLine(i, B) on a fresh Display, A and B of
\* at most 16 characters.
SecondOfPair ==
    /\ nOps = 1 /\ lastOp.name = "WriteLine" /\ lastOp'.name = "WriteLine"
    /\ lastOp.line \in LineIdx /\ lastOp'.line = lastOp.line
    /\ Len(lastOp.content) <= 16 /\ Len(lastOp'.content) <= 16

\* C4 (as claimed): after WriteLine(i, A); WriteLine(i, B) on a fresh
\* Display the dirty columns of line i are exactly the columns where the
\* padded A and B differ, A = B included.
C4_DirtySetIsDiff ==
    [][SecondOfPair
          => DirtyCols(charPositions', lastOp.line)
                 = PaddedDiff(lastOp.content, lastOp'.content)]_vars

\* C4 (amended): the dirty columns of line i are the columns where the padded
\* A and B differ when A # B; when A = B the second call changes nothing and
\* they are the columns where A is not blank.
C4_DirtySetIsDiffUnlessEqual ==
    [][SecondOfPair
          => DirtyCols(charPositions', lastOp.line)
                 = IF lastOp.content # lastOp'.content
                   THEN PaddedDiff(lastOp.content, lastOp'.content)
                   ELSE PaddedDiff(lastOp.content, <<>>)]_vars

\* B = "a" was written over an A that had "a" in column 0 and another
\* character in column 1.
C4_Witness ==
    /\ nOps = 2 /\ lastOp.name = "WriteLine" /\ lastOp.line = 0
    /\ lastOp.content = <<"a">>
    /\ DirtyCols(charPositions, 0) = {1}

\* C5: Clear leaves every column of every line that was non-empty dirty, and
\* an Update that directly follows pushes a blank cell for exactly the dirty
\* cells, one Draw per cell.
C5_ClearLeavesDirtyThenSparseBlank ==
    [][/\ (lastOp'.name = "Clear" /\ dev # "nil")
            => \A i \in LineIdx :
                   lines[i] # <<>> => DirtyCols(charPositions', i) = ColIdx
       /\ (lastOp.name = "Clear" /\ dev # "nil" /\ AnyDirty(charPositions)
              /\ lastOp'.name = "Update" /\ err' = "nil")
            => LET D == DirtyCells(charPositions)
               IN  writes' = [k \in 1 .. Len(D) |-> CellPush(D[k][1], D[k][2], " ")]
      ]_vars

\* C6: an Update on an opened Display that is not yet initialized issues
\* exactly one Draw, of the whole frame, whatever the flags are, and sets
\* initialized iff that Draw succeeds; initialized is set by nothing else and
\* never reset.
C6_FirstUpdateFullDraw ==
    [][/\ (lastOp'.name = "Update" /\ dev # "nil" /\ ~initialized)
            => /\ Len(writes') = 1
               /\ writes'[1].r = Rect(0, 0, 128, 64)
               /\ initialized' = (err' = "nil")
       /\ initialized => initialized'
       /\ (~initialized /\ initialized')
            => (lastOp'.name = "Update" /\ err' = "nil")
      ]_vars

C6_Witness ==
    /\ lastOp.name = "Update" /\ initialized
    /\ Len(writes) = 1 /\ writes[1].r = Bounds
    /\ DirtyCols(charPositions, 0) = ColIdx

\* C7: when the Draw for the k-th dirty cell (row-major, from 0) of a sparse
\* redraw fails, Update returns the error having issued k+1 Draw calls, for
\* the first k+1 dirty cells; the k cells before are clean, the k-th and the
\* later dirty cells stay dirty and no other flag changes; and an Update that
\* directly follows and succeeds pushes exactly the cells left dirty.
C7_PartialFailureResumes ==
    [][/\ (lastOp'.name = "Update" /\ dev # "nil" /\ initialized /\ err' = "io")
            => LET D == DirtyCells(charPositions)
                   k == Len(writes') - 1
               IN  /\ k >= 0 /\ k < Len(D)
                   /\ PushedRects(writes') = RectsOf(SubSeq(D, 1, k + 1))
                   /\ DirtyCells(charPositions') = SubSeq(D, k + 1, Len(D))
                   /\ prevLines' = prevLines
       /\ (lastOp.name = "Update" /\ err = "io" /\ initialized
              /\ lastOp'.name = "Update" /\ err' = "nil")
            => /\ PushedRects(writes') = RectsOf(DirtyCells(charPositions))
               /\ ~AnyDirty(charPositions')
      ]_vars

\* Line 0 was fully dirty, the Draw for column 5 failed, and the next Update
\* pushed columns 5..15 of line 0 and nothing else.
C7_Witness ==
    /\ lastOp.name = "Update" /\ err = "nil"
    /\ PushedRects(writes) = [k \in 1 .. 11 |-> CharRect(0, k + 4)]
    /\ ~AnyDirty(charPositions)

\* C8: Update on a Display whose device handle is not open (never opened, or
\* closed) returns the "not initialized" error and issues no Draw call.
C8_UpdateOnClosedFails ==
    (lastOp.name = "Update" /\ dev # "ready")
        => (err = "display not initialized" /\ writes = <<>>)

\* C9: after WriteLine(i, s) with i in range, lines[i] is s when s has at
\* most 16 characters and the first 16 characters of s otherwise; no stored
\* line is ever longer than 16.
C9_Truncation ==
    /\ \A i \in LineIdx : Len(lines[i]) <= 16
    /\ (lastOp.name = "WriteLine" /\ lastOp.line \in LineIdx)
         => LET s == lastOp.content
            IN  lines[lastOp.line] =
                    [k \in 1 .. (IF Len(s) <= 16 THEN Len(s) ELSE 16) |-> s[k]]

C9_Witness ==
    /\ lastOp.name = "WriteLine" /\ lastOp.line \in LineIdx
    /\ Len(lastOp.content) > 16
    /\ Len(lines[lastOp.line]) = 16

\* C10: WriteLine with an index below 0 or at least 4 changes nothing of the
\* display and issues no Draw call.
C10_OutOfRangeIgnored ==
    [][(lastOp'.name = "WriteLine" /\ (lastOp'.line < 0 \/ lastOp'.line >= 4))
          => (UNCHANGED <<display, panel>> /\ writes' = <<>>)]_vars

C10_Witness ==
    /\ lastOp.name = "WriteLine" /\ lastOp.line = 4
    /\ lastOp.content # <<>>
    /\ initialized /\ AnyDirty(charPositions)

\* C11: WriteLine, for any index and content and in any state, issues no Draw
\* call and leaves the frame buffer, the panel, prevLines, initialized and
\* the handles as they were; of lines and flags only those of the addressed
\* line may change.
C11_WriteLineIsLogicalOnly ==
    [][lastOp'.name = "WriteLine"
          => /\ writes' = <<>>
             /\ UNCHANGED <<img, panel, prevLines, initialized, dev, i2cBus>>
             /\ \A i \in LineIdx :
                    i # lastOp'.line
                        => (lines'[i] = lines[i]
                              /\ charPositions'[i] = charPositions[i])]_vars

\* Line 1 was rewritten on an initialized display while line 0 had dirty
\* cells, and these are still dirty.
C11_Witness ==
    /\ lastOp.name = "WriteLine" /\ lastOp.line = 1
    /\ initialized
    /\ lines[1] # <<>> /\ DirtyCols(charPositions, 1) # {}
    /\ lines[0] # <<>> /\ DirtyCols(charPositions, 0) # {}

\* C12: Clear, in any state of an opened Display, only empties the lines and
\* sets the flags of the lines that were non-empty: it issues no Draw call,
\* leaves the frame buffer and prevLines alone and clears no flag.
C12_ClearIsLogicalOnly ==
    [][(lastOp'.name = "Clear" /\ dev # "nil")
          => /\ writes' = <<>>
             /\ UNCHANGED <<img, panel, prevLines>>
             /\ \A i \in LineIdx :
                    /\ lines'[i] = <<>>
                    /\ charPositions'[i] =
                           IF lines[i] # <<>> THEN [j \in ColIdx |-> TRUE]
                                              ELSE charPositions[i]]_vars

\* C13: once main has called Close (which it does once, after a signal), no
\* Clear, WriteLine or Update begins: Close is the last call the Display saw.
\* (Calls are atomic steps here, so a call that overlaps Close shows up as a
\* call that follows it.)
C13_NothingRunsAtOrAfterClose ==
    pcMain \in {"closed", "exited"}
        => (dev = "halted" /\ lastOp.name = "Close")

\* C14: an Update on an initialized display with some flag set that returns
\* nil leaves no flag set and prevLines equal to lines, line by line; an
\* Update that returns an error leaves prevLines as it was.
C14_SuccessSyncsFailureKeepsPrev ==
    [][/\ (lastOp'.name = "Update" /\ initialized /\ AnyDirty(charPositions)
              /\ err' = "nil")
            => /\ \A i \in LineIdx : \A j \in ColIdx : ~charPositions'[i][j]
               /\ \A i \in LineIdx : prevLines'[i] = lines'[i]
       /\ (lastOp'.name = "Update" /\ err' # "nil")
            => prevLines' = prevLines
      ]_vars

\* A sparse redraw of line 0 ran through after the line had been rewritten.
C14_Witness ==
    /\ lastOp.name = "Update" /\ err = "nil" /\ initialized
    /\ Len(writes) > 0 /\ writes[1].r # Bounds
    /\ lines[0] = <<" ", "a">> /\ prevLines[0] = <<" ", "a">>
    /\ ~AnyDirty(charPositions)

\* The dirty cells (line, column) in row-major order, spelled out.
RowMajorDirty(cp) ==
    LET grid == [n \in 1 .. 64 |-> <<(n - 1) \div 16, (n - 1) % 16>>]
        IsDirty(c) == cp[c[1]][c[2]]
    IN  SelectSeq(grid, IsDirty)

\* C15: a sparse redraw that runs through issues one Draw per dirty cell, in
\* row-major order, and none for a clean cell; the Draw for cell (i, j)
\* covers x in [8j, 8j+7], y in [16i, 16i+15], inside the 128x64 canvas; no
\* call issues more than 64 Draw calls.
C15_OnePushPerDirtyCell ==
    [][/\ (lastOp'.name = "Update" /\ dev # "nil" /\ initialized /\ err' = "nil")
            => LET D == RowMajorDirty(charPositions)
               IN  /\ Len(writes') = Len(D)
                   /\ \A k \in 1 .. Len(D) :
                          LET i == D[k][1]
                              j == D[k][2]
                              r == writes'[k].r
                          IN  /\ r.min = <<8 * j, 16 * i>>
                              /\ r.max = <<8 * j + 8, 16 * i + 16>>
                              /\ r.min[1] >= 0 /\ r.max[1] <= 128
                              /\ r.min[2] >= 0 /\ r.max[2] <= 64
       /\ Len(writes') <= 64
      ]_vars

\* A sparse redraw pushed the 16 cells of line 3, the last one reaching the
\* bottom right corner of the canvas.
C15_Witness ==
    /\ lastOp.name = "Update" /\ err = "nil" /\ initialized
    /\ Len(writes) = 16
    /\ writes[1].r = [min |-> <<0, 48>>, max |-> <<8, 64>>]
    /\ writes[16].r = [min |-> <<120, 48>>, max |-> <<128, 64>>]

\* C16: when the full-frame push of the first Update fails, Update returns
\* the error, the display stays uninitialized, lines, prevLines and the
\* flags are unchanged, and the next Update again issues one full-frame
\* push instead of a sparse redraw.
C16_FailedFirstUpdateStaysUninitialized ==
    [][/\ (lastOp'.name = "Update" /\ dev # "nil" /\ ~initialized /\ err' # "nil")
            => /\ err' = "io"
               /\ ~initialized'
               /\ UNCHANGED <<lines, prevLines, charPositions>>
       /\ (/\ lastOp.name = "Update" /\ err = "io" /\ ~initialized
           /\ lastOp'.name = "Update")
            => /\ Len(writes') = 1
               /\ writes'[1] = FullPush(FullFrame(lines))
      ]_vars

\* The first Update failed with flags pending on line 2.
C16_Witness ==
    /\ lastOp.name = "Update" /\ err = "io" /\ ~initialized
    /\ lines[2] # <<>> /\ DirtyCols(charPositions, 2) # {}
    /\ Len(writes) = 1 /\ writes[1].r = Bounds

\* C19: the first successful Update leaves every dirty flag as it was; it
\* sets only initialized, prevLines and the frame buffer (and the panel the
\* frame is pushed to).
C19_FullDrawKeepsFlags ==
    [][(lastOp'.name = "Update" /\ dev # "nil" /\ ~initialized /\ err' = "nil")
            => /\ charPositions' = charPositions
               /\ UNCHANGED <<lines, dev, i2cBus>>
               /\ initialized'
               /\ prevLines' = lines
               /\ img' = FullFrame(lines)
      ]_vars

\* The full draw succeeded and flags set on lines 1 and 3 before it are
\* still set.
C19_Witness ==
    /\ lastOp.name = "Update" /\ err = "nil" /\ initialized
    /\ Len(writes) = 1 /\ writes[1].r = Bounds
    /\ DirtyCols(charPositions, 1) = ColIdx
    /\ DirtyCols(charPositions, 3) # {}

\* C20: Clear on an initialized display never reports a device failure: it
\* returns normally with all lines empty; when one of its writes failed, the
\* failing cell and every later dirty cell stay dirty and prevLines is
\* unchanged, and the next successful Update pushes exactly those cells.
C20_ClearSwallowsDeviceFailure ==
    [][/\ (lastOp'.name = "Clear" /\ initialized)
            => LET D == RowMajorDirty(
                            [i \in LineIdx |->
                                IF lines[i] # <<>> THEN [j \in ColIdx |-> TRUE]
                                                   ELSE charPositions[i]])
                   k == Len(writes')
               IN  /\ err' = "nil"
                   /\ \A i \in LineIdx : lines'[i] = <<>>
                   /\ IF AnyDirty(charPositions')
                      THEN /\ k >= 1
                           /\ RowMajorDirty(charPositions') = SubSeq(D, k, Len(D))
                           /\ prevLines' = prevLines
                      ELSE /\ k = Len(D)
                           /\ prevLines' = lines'
       /\ (/\ lastOp.name = "Clear" /\ initialized /\ AnyDirty(charPositions)
           /\ lastOp'.name = "Update" /\ err' = "nil")
            => LET R == RowMajorDirty(charPositions)
               IN  /\ Len(writes') = Len(R)
                   /\ \A n \in 1 .. Len(R) :
                          writes'[n] = CellPush(R[n][1], R[n][2], " ")
      ]_vars

\* Clear's second write failed: line 0 was on the panel, its first cell was
\* blanked, the other fifteen are still dirty, and Clear reported nothing.
C20_Witness ==
    /\ lastOp.name = "Clear" /\ err = "nil" /\ initialized
    /\ Len(writes) = 2
    /\ \A i \in LineIdx : lines[i] = <<>>
    /\ prevLines[0] # <<>>
    /\ DirtyCols(charPositions, 0) = ColIdx \ {0}

\* C18: every string ipaddr.Get and uptime.Get hand to WriteLine is at most
\* 16 characters long, so WriteLine stores it untruncated.
C18_MetricStringsFit ==
    lastOp.name = "WriteLine"
        => /\ Len(lastOp.content) <= 16
           /\ lines[lastOp.line] = lastOp.content

\* C17: on an initialized display, once only Update is called and device
\* writes end up succeeding, eventually no dirty flag is set and prevLines
\* equals lines for good, and from then on an Update issues no device write.
C17_RetryConverges ==
    /\ <>[]((InRetry /\ initialized)
              => (~AnyDirty(charPositions) /\ prevLines = lines))
    /\ [][(/\ InRetry /\ initialized /\ ~AnyDirty(charPositions)
           /\ prevLines = lines /\ lastOp'.name = "Update")
            => writes' = <<>>]_vars

====
